---------------------------- MODULE Spec2Model ----------------------------
(***************************************************************************)
(* A model of ZABUGORN.py: the aiogram bot that walks a requester through  *)
(* an 11-question form, stores the completed form in the requests table,   *)
(* mirrors it to a spreadsheet, notifies the operators, and lets operators *)
(* act on requests through inline buttons.                                 *)
(*                                                                         *)
(* Texts are sequences of characters.  A character is a one-character      *)
(* string; a Cyrillic letter is written as a two-character token starting  *)
(* with "c" ("cI" for И, "cv" for в), because the module is ASCII.         *)
(* message.text = None (a message that carries no text) is the empty       *)
(* sequence: every use in the source is `message.text or X`, which treats  *)
(* None and "" alike.                                                      *)
(*                                                                         *)
(* The dispatcher is started with dp.start_polling(bot): every update is   *)
(* handled in an asyncio task of its own and the FSM storage is a          *)
(* MemoryStorage without event isolation, so a handler suspended at an     *)
(* await (a transport call, an aiosqlite call) leaves the loop to the      *)
(* handlers of other updates.  process_wishes, with its chain of awaits,   *)
(* and the forwarding loop of catch_all_messages are one action per        *)
(* segment between two awaits.  Every other handler is one action that     *)
(* covers both outcomes of its send (it returned, or it raised and the     *)
(* exception left the handler).                                            *)
(***************************************************************************)
EXTENDS Integers, Sequences, FiniteSets, TLC

\* ------------------------------------------------------------------ bounds
\* Rows the requests table can receive in one run of the model.
MaxId == 2
\* Handler tasks that can be suspended at an await at the same time.
MaxTasks == 2
\* The longest text of the texts enumerated over an alphabet.
MaxLen == 3

\* ------------------------------------------------------------ configuration
\* ADMIN_IDS parsed into the list ADMINS; users 1 and 2 are operators.
ADMINS == <<1, 2>>
AdminSet == {ADMINS[i] : i \in DOMAIN ADMINS}
\* Telegram users of the model: the operators and one requester.
Users == {1, 2, 3}
\* The users who send events in the model (operator 2 only receives).
Active == {1, 3}
\* AUTO_CONVERT_8_TO_7 defaults to "1".
AUTO_CONVERT_8_TO_7 == TRUE

\* --------------------------------------------------------------- characters
Digits == {"0", "1", "2", "3", "4", "5", "6", "7", "8", "9"}
Whitespace == {" "}
\* The letters NAME_RE admits: [А-Яа-яЁё].
Cyrillic == {"cI", "cv", "ca", "cn"}

DASH == <<"-">>

RECURSIVE lstrip(_)
lstrip(s) == IF s # <<>> /\ Head(s) \in Whitespace THEN lstrip(Tail(s)) ELSE s

RECURSIVE rstrip(_)
rstrip(s) ==
  IF s # <<>> /\ s[Len(s)] \in Whitespace THEN rstrip(SubSeq(s, 1, Len(s) - 1)) ELSE s

\* str.strip()
strip(s) == rstrip(lstrip(s))

\* str.startswith for a one-character prefix
startswith(s, c) == s # <<>> /\ s[1] = c

\* re.sub(r"\D", "", p)
digitsOf(p) == SelectSeq(p, LAMBDA c : c \in Digits)

\* len(text.split()): the number of maximal runs of non-whitespace
splitCount(s) ==
  Cardinality({i \in DOMAIN s : s[i] \notin Whitespace /\ (i = 1 \/ s[i - 1] \in Whitespace)})

\* NAME_RE = ^[А-Яа-яЁё\-\s]+$
NAME_RE(s) == s # <<>> /\ \A i \in DOMAIN s : s[i] \in Cyrillic \cup {"-"} \cup Whitespace

\* PHONE_RE = ^\+7\d{10}$
PHONE_RE(s) ==
  /\ Len(s) = 12
  /\ s[1] = "+"
  /\ s[2] = "7"
  /\ \A i \in 3..12 : s[i] \in Digits

normalize_phone(raw) ==
  IF raw = <<>> THEN DASH
  ELSE LET p == strip(raw)
           digits == digitsOf(p)
       IN IF startswith(p, "+")
            THEN (IF digits = <<>> THEN DASH ELSE <<"+">> \o digits)
            ELSE IF digits = <<>> THEN DASH
            ELSE IF AUTO_CONVERT_8_TO_7 /\ startswith(digits, "8") /\ Len(digits) >= 10
              THEN <<"+", "7">> \o Tail(digits)
            ELSE <<"+">> \o digits

\* `message.text or "-"`
textOrDash(t) == IF t = <<>> THEN DASH ELSE t

\* ------------------------------------------------------------------- texts
\* The two reply-keyboard labels and the commands the handlers filter on.
BTN_FORM == <<"[", "f", "]">>
BTN_SUPPORT == <<"[", "s", "]">>
CMD_START == <<"/", "s">>
CMD_LIST == <<"/", "l">>

\* The form's states in order (class Form), and the field each one fills.
FormSteps ==
  <<"name", "phone", "username", "extra_phone", "brand_model", "exterior",
    "interior", "package", "budget", "year", "wishes">>
FormStepSet == {FormSteps[i] : i \in DOMAIN FormSteps}

StepIndex(st) == CHOOSE i \in DOMAIN FormSteps : FormSteps[i] = st
\* The state a handler sets after the state st.
NextStep(st) == FormSteps[StepIndex(st) + 1]


\* ---------------------------------------------------------------- messages
\* An inbound message: its text and, for a shared contact, the phone number.
Msg(t) == [text |-> t, hasContact |-> FALSE, contact |-> <<>>]
ContactMsg(p) == [text |-> <<>>, hasContact |-> TRUE, contact |-> p]

M_NAME == Msg(<<"cI", "cv", " ", "cI", "cv", "ca", "cn">>)
M_NAME_BAD == Msg(<<"cI", "cv", "1">>)
M_PHONE ==
  Msg(<<"+", "7", " ", "(", "9", "9", "9", ")", " ", "1", "2", "3", "-", "4", "5", "-", "6", "7">>)
M_PHONE_BAD == Msg(<<"1", "2">>)
M_USER == Msg(<<"i", "v">>)
M_SKIP == Msg(DASH)
M_HELLO == Msg(<<"h", "i">>)

\* What a requester sends while the form is in state st: the answers of the
\* model, one accepted answer per question and a rejected one where the
\* handler validates.
AnswersAt(st) ==
  CASE st = "name" -> {M_NAME, M_NAME_BAD}
    [] st = "phone" -> {M_PHONE, M_PHONE_BAD}
    [] st = "username" -> {M_USER}
    [] st = "extra_phone" -> {M_SKIP}
    [] st = "brand_model" -> {Msg(<<"b", "m", "w">>)}
    [] st = "exterior" -> {Msg(<<"e", "x">>)}
    [] st = "interior" -> {Msg(<<"i", "n">>)}
    [] st = "package" -> {Msg(<<"p", "k">>)}
    [] st = "budget" -> {Msg(<<"5", "M">>)}
    [] st = "year" -> {Msg(<<"2", "0", "2", "1">>)}
    [] st = "wishes" -> {Msg(<<"w">>)}
    [] OTHER -> {M_HELLO}

\* cb.from_user.username of the use_my_username callback: none, or a handle.
Handles == {<<>>, <<"i", "v">>}

\* --------------------------------------------------------------------- state
VARIABLES
  consent,    \* CONSENT_STORE: user -> BOOLEAN (a missing key reads False)
  support,    \* SupportStateHolder._support_waiting
  fsmState,   \* MemoryStorage: user -> state ("none" is None)
  fsmData,    \* MemoryStorage: user -> the data dict
  requests,   \* the requests table: id -> row
  lastId,     \* the table's AUTOINCREMENT sequence
  sheetLen,   \* rows of the spreadsheet's first worksheet
  tasks,      \* the handler tasks suspended at an await
  out,        \* the transport calls that returned, and the exceptions that
              \* left a handler, in the step just taken
  kbShown,    \* users who were sent the username prompt and its inline button
  script,     \* per user: the answers of the form traversal in progress
  made        \* per user: the rows inserted since the traversal began

vars ==
  <<consent, support, fsmState, fsmData, requests, lastId, sheetLen, tasks, out,
    kbShown, script, made>>

NoData == [k \in {} |-> <<>>]

\* data.get(k, default)
Get(d, k, default) == IF k \in DOMAIN d THEN d[k] ELSE default

\* state.update_data(k = v) on the dict d
Upd(d, k, v) == [x \in DOMAIN d \cup {k} |-> IF x = k THEN v ELSE d[x]]

Slots == 1..MaxTasks
Idle ==
  [h |-> "idle", u |-> 0, pc |-> "", data |-> NoData, req |-> 0, row |-> 0, i |-> 0]
Task(h, u, pc) == [Idle EXCEPT !.h = h, !.u = u, !.pc = pc]

Busy(t) == tasks[t].h # "idle"
HasFree == \E t \in Slots : ~Busy(t)
FreeSlot == CHOOSE t \in Slots : ~Busy(t) /\ \A s \in Slots : s < t => Busy(s)
Spawn(task) == tasks' = [tasks EXCEPT ![FreeSlot] = task]
Finish(t) == tasks' = [tasks EXCEPT ![t] = Idle]
InFlight(u) == \E t \in Slots : Busy(t) /\ tasks[t].u = u

\* One element of `out`.
Sent(k, to, req, ok) == [k |-> k, to |-> to, req |-> req, ok |-> ok]
\* An exception that left the handler h of user u (the dispatcher logs it).
Raised(h, u) == [k |-> "exception", to |-> u, req |-> 0, ok |-> FALSE, h |-> h]

NoScript == [on |-> FALSE, ans |-> <<>>]

Init ==
  /\ consent = [u \in Users |-> FALSE]
  /\ support = {}
  /\ fsmState = [u \in Users |-> "none"]
  /\ fsmData = [u \in Users |-> NoData]
  /\ requests = [k \in {} |-> 0]
  /\ lastId = 0
  /\ sheetLen = 0
  /\ tasks = [t \in Slots |-> Idle]
  /\ out = <<>>
  /\ kbShown = {}
  /\ script = [u \in Users |-> NoScript]
  /\ made = [u \in Users |-> <<>>]

\* process_name's three checks on the stripped text
NameAccepted(text) == text # <<>> /\ NAME_RE(text) /\ splitCount(text) >= 2

\* The raw phone of a message: the shared contact's number, else the text.
RawPhone(m) == IF m.hasContact THEN m.contact ELSE m.text

\* ---------------------------------------------------------------- dispatch
\* The handler registered with the filter of each state of the form.
StepHandler(st) ==
  CASE st = "name" -> "process_name"
    [] st = "phone" -> "process_phone"
    [] st = "username" -> "process_username"
    [] st = "extra_phone" -> "process_extra_phone"
    [] st = "brand_model" -> "process_brand"
    [] st = "exterior" -> "process_exterior"
    [] st = "interior" -> "process_interior"
    [] st = "package" -> "process_package"
    [] st = "budget" -> "process_budget"
    [] st = "year" -> "process_year"
    [] st = "wishes" -> "process_wishes"

\* A dispatcher on which catch_all_messages is registered first and takes
\* every message of a user whose support flag is set.
Route_support_first(u, m) ==
  IF u \in support THEN "catch_all_messages"
  ELSE IF m.text = CMD_START THEN "cmd_start"
  ELSE IF m.text = BTN_SUPPORT THEN "ask_support"
  ELSE IF m.text = BTN_FORM THEN "start_form_handler"
  ELSE IF fsmState[u] \in FormStepSet THEN StepHandler(fsmState[u])
  ELSE IF fsmState[u] = "waiting_admin_message" THEN "handle_admin_message"
  ELSE IF m.text = CMD_LIST THEN "list_requests"
  ELSE "catch_all_messages"

\* The handler the dispatcher picks for a message: the first registered
\* handler whose filter matches, in the order of the @dp.message decorators.
Route(u, m) ==
  IF m.text = CMD_START THEN "cmd_start"
  ELSE IF m.text = BTN_SUPPORT THEN "ask_support"
  ELSE IF m.text = BTN_FORM THEN "start_form_handler"
  ELSE IF fsmState[u] = "name" THEN "process_name"
  ELSE IF fsmState[u] = "phone" THEN "process_phone"
  ELSE IF fsmState[u] = "username" THEN "process_username"
  ELSE IF fsmState[u] = "extra_phone" THEN "process_extra_phone"
  ELSE IF fsmState[u] = "brand_model" THEN "process_brand"
  ELSE IF fsmState[u] = "exterior" THEN "process_exterior"
  ELSE IF fsmState[u] = "interior" THEN "process_interior"
  ELSE IF fsmState[u] = "package" THEN "process_package"
  ELSE IF fsmState[u] = "budget" THEN "process_budget"
  ELSE IF fsmState[u] = "year" THEN "process_year"
  ELSE IF fsmState[u] = "wishes" THEN "process_wishes"
  ELSE IF fsmState[u] = "waiting_admin_message" THEN "handle_admin_message"
  ELSE IF m.text = CMD_LIST THEN "list_requests"
  ELSE "catch_all_messages"

\* ------------------------------------------------- the traversal in progress
\* An answer to the question st that the field rules accept: a full name in
\* Cyrillic of two words or more, a phone that normalizes to +7 and ten
\* digits, the skip token for the second phone, a non-blank text elsewhere.
ValidAnswer(st, m) ==
  CASE st = "name" -> NameAccepted(strip(m.text))
    [] st = "phone" -> PHONE_RE(normalize_phone(RawPhone(m)))
    [] st = "extra_phone" ->
         strip(RawPhone(m)) = DASH \/ PHONE_RE(normalize_phone(RawPhone(m)))
    [] OTHER -> strip(m.text) # <<>>

MenuHandlers == {"cmd_start", "ask_support", "start_form_handler"}

\* `script` follows one user's traversal of the form: it starts when the
\* start-form button is accepted, grows by each valid answer that the user
\* gives to the question the form is at once the previous event of that
\* user has been handled, and is dropped by any other event of the user and
\* by an exception in one of the user's handlers.
ScriptAfterMessage(u, m) ==
  LET s == script[u]
  IN IF Route(u, m) = "start_form_handler" /\ consent[u] /\ ~InFlight(u)
       THEN [on |-> TRUE, ans |-> <<>>]
     ELSE IF /\ s.on
             /\ Len(s.ans) < Len(FormSteps)
             /\ ~InFlight(u)
             /\ fsmState[u] = FormSteps[Len(s.ans) + 1]
             /\ Route(u, m) \notin MenuHandlers
             /\ ValidAnswer(fsmState[u], m)
       THEN [on |-> TRUE, ans |-> Append(s.ans, [m |-> m, cb |-> FALSE])]
     ELSE NoScript

ScriptAfterShortcut(u, h) ==
  LET s == script[u]
  IN IF /\ s.on
        /\ Len(s.ans) = 2
        /\ ~InFlight(u)
        /\ fsmState[u] = "username"
        /\ h # <<>>
       THEN [on |-> TRUE, ans |-> Append(s.ans, [m |-> Msg(h), cb |-> TRUE])]
     ELSE NoScript

Touch(u, s) == script' = [script EXCEPT ![u] = s]

\* An exception that leaves a handler of user u ends the traversal followed.
AfterResume(t) ==
  IF \E j \in DOMAIN out' : out'[j].k = "exception"
    THEN Touch(tasks[t].u, NoScript)
    ELSE UNCHANGED script

\* state.clear() on the storage
Clear(u) ==
  /\ fsmState' = [fsmState EXCEPT ![u] = "none"]
  /\ fsmData' = [fsmData EXCEPT ![u] = NoData]

\* A handler that only replies and returns.
ReplyOnly(k, u) ==
  /\ out' = <<Sent(k, u, 0, TRUE)>>
  /\ Touch(u, NoScript)
  /\ UNCHANGED <<consent, support, fsmState, fsmData, requests, lastId, sheetLen,
                 tasks, kbShown, made>>

\* The tail every question handler shares: `await message.answer(<next
\* prompt>)`, then `await state.set_state(<next state>)`.  The send returns,
\* or it raises and the exception leaves the handler h before the state is
\* set.  s is the traversal followed if the handler completes.
PromptThenSetState(h, u, next, s) ==
  LET Outcome(ok) ==
        /\ out' = IF ok THEN <<Sent("prompt", u, 0, TRUE)>>
                  ELSE <<Sent("prompt", u, 0, FALSE), Raised(h, u)>>
        /\ fsmState' = IF ok THEN [fsmState EXCEPT ![u] = next] ELSE fsmState
        /\ kbShown' = IF ok /\ next = "username" THEN kbShown \cup {u} ELSE kbShown
        /\ Touch(u, IF ok THEN s ELSE NoScript)
  IN Outcome(TRUE) \/ Outcome(FALSE)

\* ----------------------------------------------------------- user handlers
cmd_start(u, m) ==
  /\ Route(u, m) = "cmd_start"
  /\ ReplyOnly("privacy_notice", u)

privacy_answer(u, yes) ==
  /\ consent' = [consent EXCEPT ![u] = yes]
  /\ out' = <<Sent(IF yes THEN "main_menu" ELSE "consent_refused", u, 0, TRUE)>>
  /\ Touch(u, NoScript)
  /\ UNCHANGED <<support, fsmState, fsmData, requests, lastId, sheetLen, tasks,
                 kbShown, made>>

\* The flag is set after `await message.reply(...)` returned.
ask_support(u, m) ==
  /\ Route(u, m) = "ask_support"
  /\ IF ~consent[u]
       THEN ReplyOnly("consent_required", u)
       ELSE /\ \E ok \in BOOLEAN :
                 /\ out' = IF ok THEN <<Sent("support_prompt", u, 0, TRUE)>>
                           ELSE <<Sent("support_prompt", u, 0, FALSE), Raised("ask_support", u)>>
                 /\ support' = IF ok THEN support \cup {u} ELSE support
            /\ Touch(u, NoScript)
            /\ UNCHANGED <<consent, fsmState, fsmData, requests, lastId, sheetLen,
                           tasks, kbShown, made>>

start_form_handler(u, m) ==
  /\ Route(u, m) = "start_form_handler"
  /\ IF ~consent[u]
       THEN ReplyOnly("consent_required", u)
       ELSE /\ PromptThenSetState("start_form_handler", u, "name", ScriptAfterMessage(u, m))
            /\ made' = [made EXCEPT ![u] = <<>>]
            /\ UNCHANGED <<consent, support, fsmData, requests, lastId, sheetLen, tasks>>

\* A question handler that accepted the value v for the field: update_data,
\* then the prompt and the next state.
Accept(h, u, field, v, next, s) ==
  /\ fsmData' = [fsmData EXCEPT ![u] = Upd(fsmData[u], field, v)]
  /\ PromptThenSetState(h, u, next, s)
  /\ UNCHANGED <<consent, support, requests, lastId, sheetLen, tasks, made>>

\* process_name that records the text before it validates it.
process_name_eager(u, m) ==
  /\ Route(u, m) = "process_name"
  /\ LET text == strip(m.text)
     IN IF NameAccepted(text)
          THEN Accept("process_name", u, "name", text, "phone", ScriptAfterMessage(u, m))
          ELSE /\ fsmData' = [fsmData EXCEPT ![u] = Upd(fsmData[u], "name", text)]
               /\ out' = <<Sent("reject", u, 0, TRUE)>>
               /\ Touch(u, NoScript)
               /\ UNCHANGED <<consent, support, fsmState, requests, lastId, sheetLen,
                              tasks, kbShown, made>>

process_name(u, m) ==
  /\ Route(u, m) = "process_name"
  /\ LET text == strip(m.text)
     IN IF NameAccepted(text)
          THEN Accept("process_name", u, "name", text, "phone", ScriptAfterMessage(u, m))
          ELSE ReplyOnly("reject", u)

process_phone(u, m) ==
  /\ Route(u, m) = "process_phone"
  /\ LET phone == normalize_phone(RawPhone(m))
     IN IF phone # DASH /\ ~PHONE_RE(phone)
          THEN ReplyOnly("reject", u)
          ELSE Accept("process_phone", u, "phone", phone, "username", ScriptAfterMessage(u, m))

\* The username the shortcut stores for the handle h of the presser.
HandleUsername(h) ==
  IF h = <<>> THEN DASH ELSE IF startswith(h, "@") THEN h ELSE <<"@">> \o h

\* The callback has no state filter: it runs in whatever state the user is.
\* (Its three sends, cb.answer, edit_text and send_message, are one here.)
use_my_username(u, h) ==
  /\ u \in kbShown
  /\ Accept("use_my_username", u, "username", HandleUsername(h), "extra_phone",
            ScriptAfterShortcut(u, h))

TypedUsername(text) ==
  IF text # DASH /\ ~startswith(text, "@") THEN <<"@">> \o text ELSE text

process_username(u, m) ==
  /\ Route(u, m) = "process_username"
  /\ LET text == strip(m.text)
     IN IF text = <<>>
          THEN ReplyOnly("reject", u)
          ELSE Accept("process_username", u, "username", TypedUsername(text), "extra_phone",
                      ScriptAfterMessage(u, m))

process_extra_phone(u, m) ==
  /\ Route(u, m) = "process_extra_phone"
  /\ LET raw == RawPhone(m)
         extra == IF strip(raw) = DASH THEN DASH ELSE normalize_phone(raw)
     IN IF strip(raw) # DASH /\ extra # DASH /\ ~PHONE_RE(extra)
          THEN ReplyOnly("reject", u)
          ELSE Accept("process_extra_phone", u, "extra_phone", extra, "brand_model",
                      ScriptAfterMessage(u, m))

\* The six free-text questions store `message.text or "-"` unconditionally.
FreeText(h, u, m, field) ==
  /\ Route(u, m) = h
  /\ Accept(h, u, field, textOrDash(m.text), NextStep(field), ScriptAfterMessage(u, m))

process_brand(u, m) == FreeText("process_brand", u, m, "brand_model")
process_exterior(u, m) == FreeText("process_exterior", u, m, "exterior")
process_interior(u, m) == FreeText("process_interior", u, m, "interior")
process_package(u, m) == FreeText("process_package", u, m, "package")
process_budget(u, m) == FreeText("process_budget", u, m, "budget")
process_year(u, m) == FreeText("process_year", u, m, "year")

\* ---------------------------------------------------------- process_wishes
\* phones_combined = f"({phone}), ({extra_phone})"
PhonesCombined(data) ==
  <<"(">> \o Get(data, "phone", DASH) \o <<")", ",", " ", "(">>
    \o Get(data, "extra_phone", DASH) \o <<")">>

\* RowOf with the exterior and interior columns exchanged.
RowOf_swapped(u, data) ==
  [user_id |-> u,
   username |-> Get(data, "username", DASH),
   name |-> Get(data, "name", DASH),
   phones |-> PhonesCombined(data),
   brand_model |-> Get(data, "brand_model", DASH),
   exterior |-> Get(data, "interior", DASH),
   interior |-> Get(data, "exterior", DASH),
   package |-> Get(data, "package", DASH),
   budget |-> Get(data, "budget", DASH),
   year |-> Get(data, "year", DASH),
   wishes |-> Get(data, "wishes", DASH),
   sheet_row |-> 0,
   status |-> "new"]

\* The row the INSERT writes (the priority column keeps its default and is
\* never read; sheet_row NULL is 0; status defaults to 'new').
RowOf(u, data) ==
  [user_id |-> u,
   username |-> Get(data, "username", DASH),
   name |-> Get(data, "name", DASH),
   phones |-> PhonesCombined(data),
   brand_model |-> Get(data, "brand_model", DASH),
   exterior |-> Get(data, "exterior", DASH),
   interior |-> Get(data, "interior", DASH),
   package |-> Get(data, "package", DASH),
   budget |-> Get(data, "budget", DASH),
   year |-> Get(data, "year", DASH),
   wishes |-> Get(data, "wishes", DASH),
   sheet_row |-> 0,
   status |-> "new"]

\* The process_wishes tasks that have not run their INSERT yet.
PendingInserts ==
  Cardinality({t \in Slots : tasks[t].h = "process_wishes" /\ tasks[t].pc = "insert"})

\* Up to the first await: update_data(wishes), get_data, then the task is
\* suspended in aiosqlite.connect.  (The guard on lastId is the model's
\* bound on the table.)
process_wishes(u, m) ==
  /\ Route(u, m) = "process_wishes"
  /\ HasFree
  /\ lastId + PendingInserts < MaxId
  /\ LET data == Upd(fsmData[u], "wishes", textOrDash(m.text))
     IN /\ fsmData' = [fsmData EXCEPT ![u] = data]
        /\ Spawn([Task("process_wishes", u, "insert") EXCEPT !.data = data])
  /\ out' = <<>>
  /\ UNCHANGED <<consent, support, fsmState, requests, lastId, sheetLen, kbShown, made>>
  /\ Touch(u, ScriptAfterMessage(u, m))

\* A task whose handler an exception left: nothing after the raise runs.
Abort(t) ==
  /\ Finish(t)
  /\ out' = <<Raised(tasks[t].h, tasks[t].u)>>

\* wishes_insert with the INSERT put off: the handler goes on to the mirror
\* under the id the row would get.
wishes_insert_late(t) ==
  /\ tasks[t].h = "process_wishes"
  /\ tasks[t].pc = "insert"
  /\ lastId < MaxId
  /\ tasks' = [tasks EXCEPT ![t].pc = "mirror", ![t].req = lastId + 1]
  /\ out' = <<>>
  /\ UNCHANGED <<consent, support, fsmState, fsmData, requests, lastId, sheetLen,
                 kbShown, made>>
  /\ AfterResume(t)

\* INSERT and commit: the row is committed under the next id, or the
\* statement raises and the exception leaves the handler.
\* wishes_insert on a table whose id is INTEGER PRIMARY KEY without
\* AUTOINCREMENT: the new id is one more than the largest id in the table,
\* so the id of a deleted last row is given out again.
wishes_insert_reuse(t) ==
  /\ tasks[t].h = "process_wishes"
  /\ tasks[t].pc = "insert"
  /\ \/ /\ Abort(t)
        /\ UNCHANGED <<requests, lastId, made>>
     \/ /\ lastId < MaxId
        /\ LET top == IF DOMAIN requests = {} THEN 0
                      ELSE CHOOSE k \in DOMAIN requests : \A j \in DOMAIN requests : j <= k
               id == top + 1
               row == RowOf(tasks[t].u, tasks[t].data)
           IN /\ requests' = (id :> row) @@ requests
              /\ lastId' = IF id > lastId THEN id ELSE lastId
              /\ made' = [made EXCEPT ![tasks[t].u] = Append(@, [id |-> id, row |-> row])]
              /\ tasks' = [tasks EXCEPT ![t].pc = "mirror", ![t].req = id]
        /\ out' = <<>>
  /\ UNCHANGED <<consent, support, fsmState, fsmData, sheetLen, kbShown>>
  /\ AfterResume(t)

\* wishes_insert with the exception of the INSERT caught and passed over:
\* the handler goes on to the confirmation with no request id.
wishes_insert_swallowed(t) ==
  /\ tasks[t].h = "process_wishes"
  /\ tasks[t].pc = "insert"
  /\ \/ /\ tasks' = [tasks EXCEPT ![t].pc = "confirm"]
        /\ out' = <<>>
        /\ UNCHANGED <<requests, lastId, made>>
     \/ /\ lastId < MaxId
        /\ LET id == lastId + 1
               row == RowOf(tasks[t].u, tasks[t].data)
           IN /\ requests' = (id :> row) @@ requests
              /\ lastId' = id
              /\ made' = [made EXCEPT ![tasks[t].u] = Append(@, [id |-> id, row |-> row])]
              /\ tasks' = [tasks EXCEPT ![t].pc = "mirror", ![t].req = id]
        /\ out' = <<>>
  /\ UNCHANGED <<consent, support, fsmState, fsmData, sheetLen, kbShown>>
  /\ AfterResume(t)

wishes_insert(t) ==
  /\ tasks[t].h = "process_wishes"
  /\ tasks[t].pc = "insert"
  /\ \/ /\ Abort(t)
        /\ UNCHANGED <<requests, lastId, made>>
     \/ /\ lastId < MaxId
        /\ LET id == lastId + 1
               row == RowOf(tasks[t].u, tasks[t].data)
           IN /\ requests' = (id :> row) @@ requests
              /\ lastId' = id
              /\ made' = [made EXCEPT ![tasks[t].u] = Append(@, [id |-> id, row |-> row])]
              /\ tasks' = [tasks EXCEPT ![t].pc = "mirror", ![t].req = id]
        /\ out' = <<>>
  /\ UNCHANGED <<consent, support, fsmState, fsmData, sheetLen, kbShown>>
  /\ AfterResume(t)

\* append_to_sheet without its try/except: a failure raises.
append_to_sheet_unguarded(n) ==
  {[ret |-> 0, len |-> n, raised |-> TRUE],
   [ret |-> 0, len |-> n + 1, raised |-> TRUE],
   [ret |-> n + 1, len |-> n + 1, raised |-> FALSE]}

\* append_to_sheet on a worksheet of n rows: what it returns (0 is None),
\* the rows the worksheet then has, and whether an exception leaves it.  It
\* returns None without credentials or client; an exception inside the try
\* (before or after append_row took effect) is caught and gives None.
append_to_sheet(n) ==
  {[ret |-> 0, len |-> n, raised |-> FALSE],
   [ret |-> 0, len |-> n + 1, raised |-> FALSE],
   [ret |-> n + 1, len |-> n + 1, raised |-> FALSE]}

wishes_mirror(t) ==
  /\ tasks[t].h = "process_wishes"
  /\ tasks[t].pc = "mirror"
  /\ \E o \in append_to_sheet(sheetLen) :
       /\ sheetLen' = o.len
       /\ IF o.raised
            THEN Abort(t)
            ELSE /\ tasks' = [tasks EXCEPT ![t].pc = IF o.ret = 0 THEN "confirm" ELSE "link",
                                           ![t].row = o.ret]
                 /\ out' = <<>>
  /\ UNCHANGED <<consent, support, fsmState, fsmData, requests, lastId, kbShown, made>>
  /\ AfterResume(t)

\* UPDATE requests SET sheet_row = ? WHERE id = ? and commit: done (a row
\* that was deleted meanwhile matches nothing), or the statement raises and
\* the exception leaves the handler.
wishes_link(t) ==
  /\ tasks[t].h = "process_wishes"
  /\ tasks[t].pc = "link"
  /\ \/ /\ Abort(t)
        /\ UNCHANGED requests
     \/ /\ requests' = IF tasks[t].req \in DOMAIN requests
                         THEN [requests EXCEPT ![tasks[t].req].sheet_row = tasks[t].row]
                         ELSE requests
        /\ tasks' = [tasks EXCEPT ![t].pc = "confirm"]
        /\ out' = <<>>
  /\ UNCHANGED <<consent, support, fsmState, fsmData, lastId, sheetLen, kbShown, made>>
  /\ AfterResume(t)

\* The notification of a new request: its text names the request and its
\* keyboard is admin_request_kb(request_id, phones, user.id).
Notice(to, req, target, ok) ==
  [k |-> "new_request", to |-> to, req |-> req, ok |-> ok,
   controls |-> {<<"admin_msg", target>>, <<"take", req>>, <<"delete", req>>}]

\* `await message.answer(<thanks>)` returned or raised.
wishes_confirm(t) ==
  /\ tasks[t].h = "process_wishes"
  /\ tasks[t].pc = "confirm"
  /\ \E ok \in BOOLEAN :
       IF ok
         THEN /\ out' = <<Sent("confirmation", tasks[t].u, tasks[t].req, TRUE)>>
              /\ IF Len(ADMINS) = 0
                   THEN Clear(tasks[t].u) /\ Finish(t)
                   ELSE /\ tasks' = [tasks EXCEPT ![t].pc = "fanout", ![t].i = 1]
                        /\ UNCHANGED <<fsmState, fsmData>>
         ELSE /\ out' = <<Sent("confirmation", tasks[t].u, tasks[t].req, FALSE),
                          Raised("process_wishes", tasks[t].u)>>
              /\ Finish(t)
              /\ UNCHANGED <<fsmState, fsmData>>
  /\ UNCHANGED <<consent, support, requests, lastId, sheetLen, kbShown, made>>
  /\ AfterResume(t)

\* wishes_fanout without the loop's try/except: a failed send leaves the handler.
wishes_fanout_unguarded(t) ==
  /\ tasks[t].h = "process_wishes"
  /\ tasks[t].pc = "fanout"
  /\ \E ok \in BOOLEAN :
       IF ok
         THEN /\ out' = <<Notice(ADMINS[tasks[t].i], tasks[t].req, tasks[t].u, TRUE)>>
              /\ IF tasks[t].i < Len(ADMINS)
                   THEN /\ tasks' = [tasks EXCEPT ![t].i = @ + 1]
                        /\ UNCHANGED <<fsmState, fsmData>>
                   ELSE Clear(tasks[t].u) /\ Finish(t)
         ELSE /\ out' = <<Notice(ADMINS[tasks[t].i], tasks[t].req, tasks[t].u, FALSE),
                          Raised("process_wishes", tasks[t].u)>>
              /\ Finish(t)
              /\ UNCHANGED <<fsmState, fsmData>>
  /\ UNCHANGED <<consent, support, requests, lastId, sheetLen, kbShown, made>>
  /\ AfterResume(t)

\* The send to ADMINS[i] returned or raised inside the loop's try/except;
\* after the last operator the handler clears the state.
wishes_fanout(t) ==
  /\ tasks[t].h = "process_wishes"
  /\ tasks[t].pc = "fanout"
  /\ \E ok \in BOOLEAN :
       out' = <<Notice(ADMINS[tasks[t].i], tasks[t].req, tasks[t].u, ok)>>
  /\ IF tasks[t].i < Len(ADMINS)
       THEN /\ tasks' = [tasks EXCEPT ![t].i = @ + 1]
            /\ UNCHANGED <<fsmState, fsmData>>
       ELSE Clear(tasks[t].u) /\ Finish(t)
  /\ UNCHANGED <<consent, support, requests, lastId, sheetLen, kbShown, made>>
  /\ AfterResume(t)

\* ---------------------------------------------------------- admin callbacks
\* The acknowledgement of a callback, cb.answer(<text>), after the statement
\* was committed: it returns, or it raises and the exception leaves h.  (The
\* edit of the message that follows is inside try/except: pass.)
Ack(h, k, a, id) ==
  \/ out' = <<Sent(k, a, id, TRUE)>>
  \/ out' = <<Sent(k, a, id, FALSE), Raised(h, a)>>

\* UPDATE requests SET status = 'in_progress' WHERE id = ?
take_request(a, id) ==
  /\ requests' = IF id \in DOMAIN requests
                   THEN [requests EXCEPT ![id].status = "in_progress"]
                   ELSE requests
  /\ Ack("take_request", "ack_taken", a, id)
  /\ Touch(a, NoScript)
  /\ UNCHANGED <<consent, support, fsmState, fsmData, lastId, sheetLen, tasks,
                 kbShown, made>>

\* DELETE FROM requests WHERE id = ?
delete_request(a, id) ==
  /\ requests' = [k \in DOMAIN requests \ {id} |-> requests[k]]
  /\ Ack("delete_request", "ack_deleted", a, id)
  /\ Touch(a, NoScript)
  /\ UNCHANGED <<consent, support, fsmState, fsmData, lastId, sheetLen, tasks,
                 kbShown, made>>

\* cb.answer and the reply come first; both state writes follow them.
admin_msg(a, target) ==
  /\ \/ /\ out' = <<Sent("enter_message", a, 0, TRUE)>>
        /\ fsmState' = [fsmState EXCEPT ![a] = "waiting_admin_message"]
        /\ fsmData' = [fsmData EXCEPT ![a] = Upd(fsmData[a], "target_user", target)]
     \/ /\ out' = <<Sent("enter_message", a, 0, FALSE), Raised("admin_msg", a)>>
        /\ UNCHANGED <<fsmState, fsmData>>
  /\ Touch(a, NoScript)
  /\ UNCHANGED <<consent, support, requests, lastId, sheetLen, tasks, kbShown, made>>

\* `if target:` is false for a missing target and for the target 0: nothing
\* is sent.  Else the relay and the reply that reports it are in one try; an
\* exception of either is caught and reported by a second reply, which can
\* itself raise and then leaves the handler before state.clear().
handle_admin_message(u, m) ==
  /\ Route(u, m) = "handle_admin_message"
  /\ LET target == Get(fsmData[u], "target_user", 0)
     IN IF target = 0
          THEN Clear(u) /\ out' = <<>>
          ELSE \E sendOk \in BOOLEAN, okReply \in BOOLEAN, errReply \in BOOLEAN :
                 LET caught == ~sendOk \/ ~okReply
                     raised == caught /\ ~errReply
                 IN /\ out' = <<Sent("admin_relay", target, 0, sendOk)>>
                              \o (IF sendOk THEN <<Sent("relay_ok", u, 0, okReply)>> ELSE <<>>)
                              \o (IF caught THEN <<Sent("relay_failed", u, 0, errReply)>> ELSE <<>>)
                              \o (IF raised THEN <<Raised("handle_admin_message", u)>> ELSE <<>>)
                    /\ IF raised THEN UNCHANGED <<fsmState, fsmData>> ELSE Clear(u)
  /\ Touch(u, NoScript)
  /\ UNCHANGED <<consent, support, requests, lastId, sheetLen, tasks, kbShown, made>>

\* The ids of the table, newest first (LIMIT 50 is above the model's MaxId).
RECURSIVE IdsDesc(_)
IdsDesc(n) ==
  IF n = 0 THEN <<>>
  ELSE (IF n \in DOMAIN requests THEN <<n>> ELSE <<>>) \o IdsDesc(n - 1)

\* One reply per row, each with admin_request_kb(req_id, phones, 0).
ListRow(to, id) ==
  [k |-> "list_row", to |-> to, req |-> id, ok |-> TRUE, status |-> requests[id].status,
   controls |-> {<<"admin_msg", 0>>, <<"take", id>>, <<"delete", id>>}]

list_requests(u, m) ==
  /\ Route(u, m) = "list_requests"
  /\ out' = IF u \notin AdminSet THEN <<Sent("admins_only", u, 0, TRUE)>>
            ELSE IF DOMAIN requests = {} THEN <<Sent("no_requests", u, 0, TRUE)>>
            ELSE [j \in DOMAIN IdsDesc(lastId) |-> ListRow(u, IdsDesc(lastId)[j])]
  /\ Touch(u, NoScript)
  /\ UNCHANGED <<consent, support, fsmState, fsmData, requests, lastId, sheetLen,
                 tasks, kbShown, made>>

\* ------------------------------------------------------------ support relay
\* Up to the first await.  With the flag set the handler enters the
\* forwarding loop and is suspended in its first send; without it the
\* handler replies and returns.
catch_all_messages(u, m) ==
  /\ Route(u, m) = "catch_all_messages"
  /\ IF u \in support
       THEN /\ HasFree
            /\ Spawn([Task("catch_all_messages", u, "forward") EXCEPT !.i = 1])
            /\ out' = <<>>
            /\ Touch(u, NoScript)
            /\ UNCHANGED <<consent, support, fsmState, fsmData, requests, lastId,
                           sheetLen, kbShown, made>>
       ELSE ReplyOnly("use_menu", u)

\* The send to ADMINS[i] returned, or raised inside the loop's try/except.
support_forward(t) ==
  /\ tasks[t].h = "catch_all_messages"
  /\ tasks[t].pc = "forward"
  /\ \E ok \in BOOLEAN :
       out' = <<Sent("support_forward", ADMINS[tasks[t].i], 0, ok)>>
  /\ tasks' = [tasks EXCEPT ![t].i = @ + 1,
                            ![t].pc = IF tasks[t].i < Len(ADMINS) THEN "forward" ELSE "thanks"]
  /\ UNCHANGED <<consent, support, fsmState, fsmData, requests, lastId, sheetLen,
                 kbShown, made>>
  /\ AfterResume(t)

\* After the loop: SupportStateHolder.remove, then `await message.answer(
\* <thanks>)` returned or raised.
support_thanks(t) ==
  /\ tasks[t].h = "catch_all_messages"
  /\ tasks[t].pc = "thanks"
  /\ support' = support \ {tasks[t].u}
  /\ \/ out' = <<Sent("support_thanks", tasks[t].u, 0, TRUE)>>
     \/ out' = <<Sent("support_thanks", tasks[t].u, 0, FALSE),
                 Raised("catch_all_messages", tasks[t].u)>>
  /\ Finish(t)
  /\ UNCHANGED <<consent, fsmState, fsmData, requests, lastId, sheetLen, kbShown, made>>
  /\ AfterResume(t)

\* -------------------------------------------------------------------- steps
Requesters == Active \ AdminSet

\* A suspended process_wishes gets the result of its await and runs to the
\* next one.
wishes_resume(t) ==
  \/ wishes_insert(t)
  \/ wishes_mirror(t)
  \/ wishes_link(t)
  \/ wishes_confirm(t)
  \/ wishes_fanout(t)

\* ------------------------------------------------------------ environments
\* What a requester who follows the prompts sends: the start-form button
\* when no form is open, else an answer to the question the form is at.
PromptedInputs(u) == IF fsmState[u] = "none" THEN {Msg(BTN_FORM)} ELSE AnswersAt(fsmState[u])

\* Whether u sends m now.  A serial user waits until none of its handlers
\* is suspended; a user of the menu presses the start-form button in any
\* state; every user otherwise follows the prompts.
Sends(serial, menu, u, m) ==
  /\ serial => ~InFlight(u)
  /\ m \in PromptedInputs(u) \/ (menu /\ m = Msg(BTN_FORM))

\* A message of a requester reaches the handler it is routed to: the
\* start-form button, or an answer of the model to one of the questions.
form_message(serial, menu) ==
  \/ \E u \in Requesters, m \in {Msg(BTN_FORM)} : Sends(serial, menu, u, m) /\ start_form_handler(u, m)
  \/ \E u \in Requesters, m \in AnswersAt("name") : Sends(serial, menu, u, m) /\ process_name(u, m)
  \/ \E u \in Requesters, m \in AnswersAt("phone") : Sends(serial, menu, u, m) /\ process_phone(u, m)
  \/ \E u \in Requesters, m \in AnswersAt("username") : Sends(serial, menu, u, m) /\ process_username(u, m)
  \/ \E u \in Requesters, m \in AnswersAt("extra_phone") : Sends(serial, menu, u, m) /\ process_extra_phone(u, m)
  \/ \E u \in Requesters, m \in AnswersAt("brand_model") : Sends(serial, menu, u, m) /\ process_brand(u, m)
  \/ \E u \in Requesters, m \in AnswersAt("exterior") : Sends(serial, menu, u, m) /\ process_exterior(u, m)
  \/ \E u \in Requesters, m \in AnswersAt("interior") : Sends(serial, menu, u, m) /\ process_interior(u, m)
  \/ \E u \in Requesters, m \in AnswersAt("package") : Sends(serial, menu, u, m) /\ process_package(u, m)
  \/ \E u \in Requesters, m \in AnswersAt("budget") : Sends(serial, menu, u, m) /\ process_budget(u, m)
  \/ \E u \in Requesters, m \in AnswersAt("year") : Sends(serial, menu, u, m) /\ process_year(u, m)
  \/ \E u \in Requesters, m \in AnswersAt("wishes") : Sends(serial, menu, u, m) /\ process_wishes(u, m)

\* A requester who follows the prompts but does not wait for the bot: a
\* message can arrive while process_wishes is suspended for an earlier one.
Next ==
  \/ form_message(FALSE, FALSE)
  \/ \E u \in Requesters, yes \in BOOLEAN : privacy_answer(u, yes)
  \/ \E u \in Requesters, h \in Handles : fsmState[u] = "username" /\ use_my_username(u, h)
  \/ \E t \in Slots : wishes_resume(t)

Spec == Init /\ [][Next]_vars

\* A requester who waits for the bot but uses the start-form button,
\* /start, the consent buttons and the username button at any time (the
\* presser of the button has a handle).
NextMenu ==
  \/ form_message(TRUE, TRUE)
  \/ \E u \in Requesters : ~InFlight(u) /\ cmd_start(u, Msg(CMD_START))
  \/ \E u \in Requesters, yes \in BOOLEAN : ~InFlight(u) /\ privacy_answer(u, yes)
  \/ \E u \in Requesters : ~InFlight(u) /\ use_my_username(u, <<"i", "v">>)
  \/ \E t \in Slots : wishes_resume(t)

SpecMenu == Init /\ [][NextMenu]_vars

\* The callbacks and /list are sent by an operator and by the requester.
\* The ids are those a keyboard can carry; the targets of the message button
\* are those of the keyboards of the notifications: the requesters.
AdminTargets == Requesters

\* A requester who follows the prompts and waits for the bot, while users
\* press the buttons of the operator keyboards and send /list.
NextAdmin ==
  \/ form_message(TRUE, FALSE)
  \/ \E u \in Requesters : ~InFlight(u) /\ privacy_answer(u, TRUE)
  \/ \E t \in Slots : wishes_resume(t)
  \/ \E a \in Active, id \in 1..MaxId : take_request(a, id)
  \/ \E a \in Active, id \in 1..MaxId : delete_request(a, id)
  \/ \E a \in Active, target \in AdminTargets : admin_msg(a, target)
  \/ \E a \in Active : handle_admin_message(a, M_HELLO)
  \/ \E a \in Active : list_requests(a, Msg(CMD_LIST))

SpecAdmin == Init /\ [][NextAdmin]_vars

\* The texts of at most MaxLen characters over the alphabet A.
Texts(A) == UNION {[1..n -> A] : n \in 0..MaxLen}

\* What the requester of the input environment sends at each question: at
\* the name question every short text over a Cyrillic letter, the space, the
\* hyphen and a digit; elsewhere the model's answer and the texts that the
\* rules of the field tell apart.
NameInputs == {Msg(t) : t \in Texts({"cI", " ", "-", "1"})} \cup AnswersAt("name")
PhoneInputs ==
  {Msg(<<>>), Msg(<<" ">>), Msg(DASH), Msg(<<"a", "b">>), Msg(<<"+">>),
   Msg(<<"8", "9", "9", "9", "1", "2", "3", "4", "5", "6", "7">>),
   Msg(<<"+", "8", "9", "9", "9", "1", "2", "3", "4", "5", "6", "7">>),
   Msg(<<"9", "9", "9", "1", "2", "3", "4", "5", "6", "7">>),
   Msg(<<"+", "7", "9", "9", "9", "1", "2", "3", "4", "5", "6">>),
   ContactMsg(<<"7", "9", "9", "9", "1", "2", "3", "4", "5", "6", "7">>),
   ContactMsg(<<>>)} \cup AnswersAt("phone")
UsernameInputs == {Msg(<<>>), Msg(<<" ">>), Msg(DASH), Msg(<<"@", "i", "v">>)} \cup AnswersAt("username")
ExtraPhoneInputs == PhoneInputs \cup {Msg(<<" ", "-", " ">>)} \cup AnswersAt("extra_phone")
FreeInputs(st) == {Msg(<<>>), Msg(<<" ">>), Msg(DASH), Msg(<<" ", "x", " ">>)} \cup AnswersAt(st)

\* The value the model's answer to the question st is stored as.
ModelValue(st) ==
  CASE st = "name" -> strip(M_NAME.text)
    [] st = "phone" -> normalize_phone(M_PHONE.text)
    [] st = "username" -> <<"@">> \o M_USER.text
    [] st = "extra_phone" -> DASH
    [] OTHER -> (CHOOSE m \in AnswersAt(st) : TRUE).text

\* The data of a user who is at the question st after the model's answers.
ModelData(st) ==
  IF st \notin FormStepSet THEN NoData
  ELSE [f \in {FormSteps[i] : i \in 1..(StepIndex(st) - 1)} |-> ModelValue(f)]

\* The requester of the input environment waits for the bot and sends a
\* message only while every earlier answer of the form is the model's: each
\* question is explored on its own.
Asks(u) == ~InFlight(u) /\ fsmData[u] = ModelData(fsmState[u])

\* The user u is at the question st and about to send a message.
AsksAt(u, st) == fsmState[u] = st /\ Asks(u)

input_message ==
  \/ \E u \in Requesters : AsksAt(u, "none") /\ \E m \in {Msg(BTN_FORM)} : start_form_handler(u, m)
  \/ \E u \in Requesters : AsksAt(u, "name") /\ \E m \in NameInputs : process_name(u, m)
  \/ \E u \in Requesters : AsksAt(u, "phone") /\ \E m \in PhoneInputs : process_phone(u, m)
  \/ \E u \in Requesters : AsksAt(u, "username") /\ \E m \in UsernameInputs : process_username(u, m)
  \/ \E u \in Requesters : AsksAt(u, "extra_phone") /\ \E m \in ExtraPhoneInputs : process_extra_phone(u, m)
  \/ \E u \in Requesters : AsksAt(u, "brand_model") /\ \E m \in FreeInputs("brand_model") : process_brand(u, m)
  \/ \E u \in Requesters : AsksAt(u, "exterior") /\ \E m \in FreeInputs("exterior") : process_exterior(u, m)
  \/ \E u \in Requesters : AsksAt(u, "interior") /\ \E m \in FreeInputs("interior") : process_interior(u, m)
  \/ \E u \in Requesters : AsksAt(u, "package") /\ \E m \in FreeInputs("package") : process_package(u, m)
  \/ \E u \in Requesters : AsksAt(u, "budget") /\ \E m \in FreeInputs("budget") : process_budget(u, m)
  \/ \E u \in Requesters : AsksAt(u, "year") /\ \E m \in FreeInputs("year") : process_year(u, m)
  \/ \E u \in Requesters : AsksAt(u, "wishes") /\ \E m \in FreeInputs("wishes") : process_wishes(u, m)

NextInput ==
  \/ input_message
  \/ \E u \in Requesters : Asks(u) /\ privacy_answer(u, TRUE)
  \/ \E u \in Requesters : AsksAt(u, "username") /\ \E h \in Handles : use_my_username(u, h)
  \/ \E t \in Slots : wishes_resume(t)

SpecInput == Init /\ [][NextInput]_vars

\* A suspended catch_all_messages gets the result of its await.
support_resume(t) ==
  \/ support_forward(t)
  \/ support_thanks(t)

\* The support environment: a requester who fills in the form one message
\* at a time, presses the support button at any question or at the menu,
\* and writes free text at the menu without waiting for the bot.
NextSupport ==
  \/ form_message(TRUE, FALSE)
  \/ \E u \in Requesters : ~InFlight(u) /\ privacy_answer(u, TRUE)
  \/ \E u \in Requesters : ~InFlight(u) /\ ask_support(u, Msg(BTN_SUPPORT))
  \/ \E u \in Requesters : catch_all_messages(u, M_HELLO)
  \/ \E t \in Slots : wishes_resume(t)
  \/ \E t \in Slots : support_resume(t)

SpecSupport == Init /\ [][NextSupport]_vars

\* The relay environment: the requester fills in the form one message at a
\* time; an active operator lists the requests, presses the message control
\* of a message the last step sent them (a new-request notification or a
\* row of the list) and writes the text to relay.
RelayOperators == Active \cap AdminSet
RelayTargets == {0} \cup Requesters
Offered(a, target) ==
  \E j \in DOMAIN out :
    /\ out[j].to = a
    /\ out[j].ok
    /\ out[j].k \in {"new_request", "list_row"}
    /\ <<"admin_msg", target>> \in out[j].controls

NextRelay ==
  \/ form_message(TRUE, FALSE)
  \/ \E u \in Requesters : ~InFlight(u) /\ privacy_answer(u, TRUE)
  \/ \E t \in Slots : wishes_resume(t)
  \/ \E a \in RelayOperators : list_requests(a, Msg(CMD_LIST))
  \/ \E a \in RelayOperators, target \in RelayTargets : Offered(a, target) /\ admin_msg(a, target)
  \/ \E a \in RelayOperators : handle_admin_message(a, M_HELLO)

SpecRelay == Init /\ [][NextRelay]_vars

\* The event loop resumes every suspended handler: each await returns or
\* raises in the end.
SpecFair == Spec /\ WF_vars(\E t \in Slots : wishes_resume(t))

\* ------------------------------------------------------------------- claims
\* C1: for every stored request and every actor outside the operator list,
\* the take action on its id leaves every request's status unchanged and the
\* actor gets a denial, not the success acknowledgement.
C1_NonOperatorTakeDenied ==
  [][\A a \in Users \ AdminSet, id \in DOMAIN requests :
       take_request(a, id) =>
         /\ requests' = requests
         /\ \E j \in DOMAIN out' : out'[j].k = "denied" /\ out'[j].to = a
         /\ \A j \in DOMAIN out' : out'[j].k # "ack_taken"]_vars

\* C2: for every actor outside the operator list, the delete action on the
\* id of a stored request removes no request and the message action does not
\* put the actor into the state that awaits the operator's text; nothing
\* changes and the actor is denied.
C2_NonOperatorDeleteAndMessageDenied ==
  [][\A a \in Users \ AdminSet :
       /\ \A id \in DOMAIN requests :
            delete_request(a, id) =>
              /\ requests' = requests
              /\ \E j \in DOMAIN out' : out'[j].k = "denied" /\ out'[j].to = a
       /\ \A target \in AdminTargets :
            admin_msg(a, target) =>
              /\ fsmState'[a] # "waiting_admin_message"
              /\ fsmState' = fsmState /\ fsmData' = fsmData
              /\ \E j \in DOMAIN out' : out'[j].k = "denied" /\ out'[j].to = a]_vars

\* C3: when a user with consent has given eleven valid answers in the order
\* of the form, each after the previous one was handled and with no handler
\* of the user left by an exception, then once the last answer is handled
\* the user has no state and no data, and exactly one row was inserted; the
\* row is in the table and each of its columns holds the accepted value of
\* its answer (the phones column holds both phones).
C3_FormStoresOneRequest ==
  \A u \in Users :
    (script[u].on /\ Len(script[u].ans) = Len(FormSteps) /\ ~InFlight(u)) =>
      LET a == script[u].ans
          typed == strip(a[3].m.text)
          extra == IF strip(RawPhone(a[4].m)) = DASH THEN DASH
                   ELSE normalize_phone(RawPhone(a[4].m))
      IN /\ consent[u]
         /\ fsmState[u] = "none"
         /\ fsmData[u] = NoData
         /\ Len(made[u]) = 1
         /\ made[u][1].id \in DOMAIN requests
         /\ LET r == requests[made[u][1].id]
            IN /\ r.user_id = u
               /\ r.name = strip(a[1].m.text)
               /\ r.phones = <<"(">> \o normalize_phone(RawPhone(a[2].m))
                               \o <<")", ",", " ", "(">> \o extra \o <<")">>
               /\ r.username = IF a[3].cb \/ (typed # DASH /\ typed[1] # "@")
                                 THEN <<"@">> \o typed ELSE typed
               /\ r.brand_model = a[5].m.text
               /\ r.exterior = a[6].m.text
               /\ r.interior = a[7].m.text
               /\ r.package = a[8].m.text
               /\ r.budget = a[9].m.text
               /\ r.year = a[10].m.text
               /\ r.wishes = a[11].m.text
               /\ r.status = "new"

\* A traversal of eleven answers has been handled to its end.
C3_Witness ==
  \E u \in Users :
    /\ script[u].on /\ Len(script[u].ans) = Len(FormSteps) /\ ~InFlight(u)
    /\ Len(made[u]) = 1

\* C4: the handler of the final answer never ends with its user still in
\* the wishes step, whatever the outcome of its insert and its sends.
C4_SessionDestroyedAfterFinalAnswer ==
  [][\A t \in Slots :
       (tasks[t].h = "process_wishes" /\ tasks'[t].h = "idle") =>
         fsmState'[tasks[t].u] # "wishes"]_vars

\* C5: a mirror append that fails does not stop the handler and raises
\* nothing: the committed row stays in the table with sheet_row null, the
\* handler goes on to the confirmation, and after the confirmation is sent
\* it goes on to the operator notifications.
C5_MirrorFailureDoesNotBlock ==
  [][\A t \in Slots :
       /\ (tasks[t].pc = "mirror" /\ tasks'[t] # tasks[t]) =>
            /\ tasks'[t].h = "process_wishes"
            /\ \A j \in DOMAIN out' : out'[j].k # "exception"
            /\ tasks'[t].req \in DOMAIN requests'
            /\ tasks'[t].row = 0 =>
                 /\ tasks'[t].pc = "confirm"
                 /\ requests'[tasks'[t].req].sheet_row = 0
       /\ (tasks[t].pc \in {"confirm", "fanout"} /\ tasks[t].row = 0 /\ tasks'[t] # tasks[t]) =>
            /\ tasks[t].req \in DOMAIN requests'
            /\ requests'[tasks[t].req].sheet_row = 0
            /\ out'[1].k = IF tasks[t].pc = "confirm" THEN "confirmation" ELSE "new_request"
            /\ out'[1].req = tasks[t].req
            /\ (tasks[t].pc = "confirm" /\ out'[1].ok) =>
                 tasks'[t].pc = "fanout" /\ tasks'[t].i = 1]_vars

\* The mirror failed, the confirmation was sent and the first operator was
\* notified of the row, whose sheet_row is null.
C5_Witness ==
  \E t \in Slots :
    /\ tasks[t].pc = "fanout" /\ tasks[t].row = 0 /\ tasks[t].i = 2
    /\ requests[tasks[t].req].sheet_row = 0
    /\ out # <<>> /\ out[1].k = "new_request" /\ out[1].req = tasks[t].req

\* C6: in the operator notifications of a new request, whether the send to
\* an operator fails or not, no exception leaves the handler, the next send
\* goes to the next operator of the list, and after the last operator the
\* handler clears the state and the data of the requester.
C6_FanOutContinuesPastFailures ==
  [][\A t \in Slots :
       (tasks[t].pc = "fanout" /\ tasks'[t] # tasks[t]) =>
         /\ out'[1].k = "new_request"
         /\ out'[1].to = ADMINS[tasks[t].i]
         /\ \A j \in DOMAIN out' : out'[j].k # "exception"
         /\ IF tasks[t].i < Len(ADMINS)
              THEN /\ tasks'[t].pc = "fanout"
                   /\ tasks'[t].i = tasks[t].i + 1
              ELSE /\ tasks'[t].h = "idle"
                   /\ fsmState'[tasks[t].u] = "none"
                   /\ fsmData'[tasks[t].u] = NoData]_vars

\* The send to the first operator failed and the loop is at the second.
C6_Witness ==
  /\ out # <<>> /\ out[1].k = "new_request" /\ ~out[1].ok /\ out[1].to = ADMINS[1]
  /\ \E t \in Slots : tasks[t].pc = "fanout" /\ tasks[t].i = 2 /\ tasks[t].req = out[1].req

\* C7: the mirror is appended to only by a handler whose row is already
\* committed, and every confirmation and every operator notification names
\* a request id that was committed before the send.
C7_InsertHappensFirst ==
  [][/\ sheetLen' # sheetLen =>
          \E t \in Slots : tasks[t].pc = "mirror" /\ tasks[t].req \in 1..lastId
     /\ \A j \in DOMAIN out' :
          out'[j].k \in {"confirmation", "new_request"} => out'[j].req \in 1..lastId]_vars

\* A row was mirrored and an operator was notified of it.
C7_Witness ==
  /\ sheetLen > 0
  /\ out # <<>> /\ out[1].k = "new_request" /\ out[1].ok
  /\ out[1].req \in DOMAIN requests /\ requests[out[1].req].sheet_row > 0

\* C8: no two handlers of one user are in progress at the same time, and
\* one traversal of the form inserts at most one row.
C8_OneEventPerUserAtATime ==
  /\ \A t1 \in Slots, t2 \in Slots :
       (t1 # t2 /\ Busy(t1) /\ Busy(t2)) => tasks[t1].u # tasks[t2].u
  /\ \A u \in Users : Len(made[u]) <= 1

\* C9: a step that takes a user from no state to a state of the form is
\* taken only when the user's consent flag is true.
C9_NoSessionWithoutConsent ==
  [][\A u \in Users :
       (fsmState[u] = "none" /\ fsmState'[u] \in FormStepSet) => consent[u]]_vars

\* C10: every step leaves a user who is in a state of the form in the same
\* state or moves the user to the next state of the order, the state after
\* wishes being no state.
C10_FormIsLinear ==
  [][\A u \in Users :
       fsmState[u] \in FormStepSet =>
         \/ fsmState'[u] = fsmState[u]
         \/ fsmState'[u] = IF fsmState[u] = "wishes" THEN "none" ELSE NextStep(fsmState[u])]_vars

C12_FailedInsertSendsNothing ==
  [][/\ \A t \in Slots :
          (tasks[t].pc = "insert" /\ tasks'[t] # tasks[t] /\ lastId' = lastId) =>
            /\ tasks'[t] = Idle
            /\ \A j \in DOMAIN out' : out'[j].k \notin {"confirmation", "new_request"}
     /\ \A j \in DOMAIN out' :
          out'[j].k \in {"confirmation", "new_request"} =>
            \E t \in Slots :
              /\ tasks[t].pc \in {"confirm", "fanout"}
              /\ tasks[t].req = out'[j].req
              /\ tasks[t].req \in DOMAIN requests
              /\ [requests[tasks[t].req] EXCEPT !.sheet_row = 0]
                   = RowOf(tasks[t].u, tasks[t].data)]_vars

\* The INSERT of the first submission failed: the exception left
\* process_wishes, no row exists and no handler is left to send anything.
C12_Witness ==
  /\ out = <<Raised("process_wishes", 3)>>
  /\ lastId = 0
  /\ \A t \in Slots : ~Busy(t)

\* C13: a step takes a user from the phone question to the username
\* question only with a stored primary phone of "+7" and exactly ten digits,
\* and the absent marker "-" is never the stored primary phone.
C13_PrimaryPhoneNeverSkipped ==
  [][\A u \in Users :
       LET stored == Get(fsmData'[u], "phone", <<>>)
       IN /\ (fsmState[u] = "phone" /\ fsmState'[u] = "username") =>
               /\ Len(stored) = 12
               /\ stored[1] = "+" /\ stored[2] = "7"
               /\ \A i \in 3..12 : stored[i] \in Digits
          /\ stored # DASH]_vars

\* C14: whenever one of the two phone questions stores a value for the
\* input raw, then: for the skip token "-" at the secondary question the
\* value is the absent marker; otherwise the value has no character but
\* digits after a leading plus, it is "+" and the digits of raw when raw
\* begins with a plus, and it is "+7" and the last ten digits when raw has
\* no leading plus and eleven digits of which the first is 8.  The skip
\* token is never rejected at the secondary question.
C14_PhoneNormalization ==
  [][\A u \in Users :
       fsmState[u] \in {"phone", "extra_phone"} =>
         \A m \in ExtraPhoneInputs :
           LET raw == RawPhone(m)
               digits == digitsOf(raw)
               field == fsmState[u]
               stored == Get(fsmData'[u], field, <<>>)
               taken == IF field = "phone" THEN process_phone(u, m)
                        ELSE process_extra_phone(u, m)
               skip == field = "extra_phone" /\ strip(raw) = DASH
           IN taken =>
                /\ skip => fsmData'[u] # fsmData[u] /\ stored = DASH
                /\ (~skip /\ fsmData'[u] # fsmData[u]) =>
                     /\ stored # <<>> /\ stored[1] = "+"
                     /\ \A i \in 2..Len(stored) : stored[i] \in Digits
                     /\ startswith(raw, "+") => stored = <<"+">> \o digits
                     /\ (AUTO_CONVERT_8_TO_7 /\ ~startswith(raw, "+")
                           /\ Len(digits) = 11 /\ digits[1] = "8") =>
                          stored = <<"+", "7">> \o Tail(digits)]_vars

\* C15: at each of the seven free-text questions, a message whose text is
\* empty after trimming (a message without text included) leaves the user at
\* the question with no answer recorded for it, and a message with any
\* other text records that text verbatim.
C15_EmptyFreeTextReprompts ==
  [][\A u \in Users :
       LET st == fsmState[u]
       IN st \in {"brand_model", "exterior", "interior", "package", "budget", "year",
                  "wishes"} =>
            \A m \in FreeInputs(st) :
              LET taken == CASE st = "brand_model" -> process_brand(u, m)
                             [] st = "exterior" -> process_exterior(u, m)
                             [] st = "interior" -> process_interior(u, m)
                             [] st = "package" -> process_package(u, m)
                             [] st = "budget" -> process_budget(u, m)
                             [] st = "year" -> process_year(u, m)
                             [] OTHER -> process_wishes(u, m)
              IN taken =>
                   IF strip(m.text) = <<>>
                     THEN fsmState'[u] = st /\ fsmData'[u] = fsmData[u]
                     ELSE Get(fsmData'[u], st, <<>>) = m.text]_vars

\* C16: the use-my-handle shortcut pressed at the username question by a
\* user without a handle leaves the user at the username question and
\* records no username.
C16_ShortcutWithoutHandleFails ==
  [][\A u \in Users :
       (fsmState[u] = "username" /\ use_my_username(u, <<>>)) =>
         /\ fsmState'[u] = "username"
         /\ "username" \notin DOMAIN fsmData'[u]]_vars

\* C17: while a user is in a state of the form, every message that is not
\* a command or a menu button goes to the handler of that state, and no step
\* starts forwarding a message of that user to the operators, whether the
\* user's support flag is set or not.
C17_SessionConsumesInputFirst ==
  [][\A u \in Users :
       fsmState[u] \in FormStepSet =>
         /\ \A m \in UNION {AnswersAt(st) : st \in FormStepSet \cup {"none"}} :
              /\ Route(u, m) = StepHandler(fsmState[u])
              /\ ~catch_all_messages(u, m)
         /\ \A t \in Slots :
              (tasks'[t].h = "catch_all_messages" /\ tasks'[t].u = u) =>
                tasks[t].h = "catch_all_messages"
         /\ \A j \in DOMAIN out' :
              out'[j].k = "support_forward" =>
                \E t \in Slots : tasks[t].h = "catch_all_messages"]_vars

\* A user whose support flag is set gave the name, and it was taken as the
\* answer to the name question: the form moved on and the flag is still set.
C17_Witness ==
  \E u \in Users :
    /\ u \in support
    /\ fsmState[u] = "phone"
    /\ "name" \in DOMAIN fsmData[u]
    /\ out = <<Sent("prompt", u, 0, TRUE)>>

\* C19: a forwarding of a support message sends to every operator in turn
\* whatever the sends before it did, the flag of the user is cleared when
\* the forwarding ends, and the user's following message is not forwarded:
\* no message of a user starts being forwarded while an earlier one of the
\* same user is.
C19_FlagClearedAfterForward ==
  [][/\ \A t \in Slots :
          (tasks[t].h = "catch_all_messages" /\ tasks'[t] # tasks[t]) =>
            IF tasks[t].pc = "forward"
              THEN /\ Len(out') = 1
                   /\ out'[1].k = "support_forward" /\ out'[1].to = ADMINS[tasks[t].i]
                   /\ tasks'[t].h = "catch_all_messages"
                   /\ IF tasks[t].i < Len(ADMINS)
                        THEN tasks'[t].pc = "forward" /\ tasks'[t].i = tasks[t].i + 1
                        ELSE tasks'[t].pc = "thanks"
              ELSE tasks[t].u \notin support'
     /\ \A t \in Slots :
          (~Busy(t) /\ tasks'[t].h = "catch_all_messages") =>
            /\ tasks'[t].u \in support
            /\ \A t2 \in Slots :
                 ~(tasks[t2].h = "catch_all_messages" /\ tasks[t2].u = tasks'[t].u)]_vars

\* C18: when an operator who pressed a message control writes the text,
\* a relay to a user is attempted, the operator's state is cleared whatever
\* the sends did, and unless the relay was delivered a failure report to
\* the operator is attempted.
C18_OperatorMessageRelayed ==
  [][\A a \in Users :
       (fsmState[a] = "waiting_admin_message" /\ handle_admin_message(a, M_HELLO)) =>
         /\ \E j \in DOMAIN out' : out'[j].k = "admin_relay" /\ out'[j].to \in Users
         /\ fsmState'[a] = "none"
         /\ (\E j \in DOMAIN out' : out'[j].k = "admin_relay" /\ out'[j].ok)
              \/ (\E j \in DOMAIN out' : out'[j].k = "relay_failed" /\ out'[j].to = a)]_vars

\* C20: once a traversal of the form in which the secondary phone was
\* skipped and the wishes answer was the skip token "-" is handled to its
\* end, the one row it made has status new, its phones column is exactly
\* the normalised primary phone and its wishes column is empty; and every
\* new-request notification goes to an operator and carries the message
\* control bound to the requester and the claim control and one more
\* control bound to the id of the request.
C20_SkippedFieldsOmitted ==
  /\ \A u \in Users :
       (/\ script[u].on /\ Len(script[u].ans) = Len(FormSteps) /\ ~InFlight(u)
        /\ strip(RawPhone(script[u].ans[4].m)) = DASH
        /\ script[u].ans[11].m.text = DASH) =>
         /\ Len(made[u]) = 1
         /\ made[u][1].id \in DOMAIN requests
         /\ LET r == requests[made[u][1].id]
            IN /\ r.status = "new"
               /\ r.phones = normalize_phone(RawPhone(script[u].ans[2].m))
               /\ r.wishes = <<>>
  /\ \A j \in DOMAIN out :
       out[j].k = "new_request" =>
         /\ out[j].to \in AdminSet
         /\ out[j].req \in DOMAIN requests
         /\ <<"admin_msg", requests[out[j].req].user_id>> \in out[j].controls
         /\ <<"take", out[j].req>> \in out[j].controls
         /\ \E c \in out[j].controls : c[1] \notin {"admin_msg", "take"} /\ c[2] = out[j].req

\* C21: every step that adds a request adds it with status new under an id
\* above every id given out before; a request whose status is no longer new
\* never has status new again; and an id that was given out and is not in
\* the table (its request was deleted) is not in the table after any step.
C21_RequestLifecycleNonCyclic ==
  [][/\ \A id \in DOMAIN requests' \ DOMAIN requests :
          id > lastId /\ requests'[id].status = "new"
     /\ \A id \in DOMAIN requests \cap DOMAIN requests' :
          requests[id].status # "new" => requests'[id].status # "new"
     /\ \A id \in 1..lastId :
          id \notin DOMAIN requests => id \notin DOMAIN requests']_vars

\* Request 1 was deleted, a take on its stale control was acknowledged, and
\* a later form completion made request 2.
C21_Witness ==
  /\ lastId = 2
  /\ DOMAIN requests = {2}
  /\ \E a \in Users : out = <<Sent("ack_taken", a, 1, TRUE)>>

C23_NoRequestWithoutConsent ==
  [][\A id \in DOMAIN requests' \ DOMAIN requests :
       consent[requests'[id].user_id]]_vars

\* C24: in the state after the step that completes a user's form (the step
\* that takes the user from a state of the form to no state), the user's
\* support flag is not set.
C24_SupportFlagDoesNotOutliveForm ==
  [][\A u \in Users :
       (fsmState[u] \in FormStepSet /\ fsmState'[u] = "none") => u \notin support']_vars

=============================================================================
